---- MODULE Spec2Model ----
(***************************************************************************)
(* mdtree: build_structure_tree of src/mdtree/treebuilder.py.              *)
(*                                                                         *)
(* A string is a sequence of one-character strings, a path is the sequence *)
(* of its component names below the root (the root is <<>>), and the       *)
(* directory snapshot is a function from paths to "dir" or "file".         *)
(* Entries are directories or regular files; the diagnostic trace of       *)
(* is_ignored (MDTREE_DEBUG) writes to stdout only and is left out.        *)
(***************************************************************************)
EXTENDS Integers, Sequences, FiniteSets, TLC

VARIABLES
    fs,               \* the directory below root_path: path -> "dir" | "file"
    gitignore,        \* the .gitignore file of the root: whether it exists, its lines
    ignore_list,      \* argument ignore_list
    apply_gitignore,  \* argument apply_gitignore
    exclude_git,      \* argument exclude_git
    max_depth,        \* argument max_depth, None or a number
    pc,               \* where build_structure_tree is
    rules,            \* rules, the compiled patterns
    all_paths,        \* all_paths, the candidates in the order found
    stack,            \* stack of the enumeration: (path, depth) entries
    pi,               \* position of "for p in all_paths"
    ri,               \* position of "for ... in rules" inside is_ignored
    state_ignore,     \* state_ignore, the running verdict of is_ignored
    included,         \* included
    lines,            \* lines, the output before the join
    emitted,          \* history: the child ch each appended line stands for
    rstack,           \* the active calls of rec: prefix, depth, kids, position
    outputs           \* the outputs of the earlier invocations

vars == <<fs, gitignore, ignore_list, apply_gitignore, exclude_git, max_depth,
          pc, rules, all_paths, stack, pi, ri, state_ignore, included,
          lines, emitted, rstack, outputs>>

inputs == <<fs, gitignore, ignore_list, apply_gitignore, exclude_git, max_depth>>

\* ------------------------------------------------------------------ bounds
\* max_depth ranges over None and 0..MaxDepthBound.
MaxDepthBound == 2
\* The caller's ignore_list holds at most MaxExtra patterns.
MaxExtra == 2

\* max_depth: Optional[int] = None
None == -1

\* ----------------------------------------------------------------- strings
\* The characters in use, in code point order: str comparison in Python is by
\* code point, and only the order matters here.
Alphabet ==
    <<" ", "!", "#", "*", ".", "/", "F", "a", "b", "c", "d", "e", "f", "g", "i",
      "l", "m", "n", "o", "p", "r", "s", "t", "u", "x">>

Ord(c) == CHOOSE i \in 1..Len(Alphabet) : Alphabet[i] = c

\* str.lower(), character by character
LowerChar(c) == IF c = "F" THEN "f" ELSE c

Lower(s) == [i \in 1..Len(s) |-> LowerChar(s[i])]

\* s < t for Python strings
RECURSIVE StrLess(_, _)
StrLess(s, t) ==
    IF t = <<>> THEN FALSE
    ELSE IF s = <<>> THEN TRUE
    ELSE IF s[1] = t[1] THEN StrLess(Tail(s), Tail(t))
    ELSE Ord(s[1]) < Ord(t[1])

StartsWith(s, pre) ==
    Len(pre) <= Len(s) /\ SubSeq(s, 1, Len(pre)) = pre

EndsWith(s, suf) ==
    Len(suf) <= Len(s) /\ SubSeq(s, Len(s) - Len(suf) + 1, Len(s)) = suf

\* str.rstrip("/")
RECURSIVE RStripSlash(_)
RStripSlash(s) ==
    IF s # <<>> /\ s[Len(s)] = "/" THEN RStripSlash(SubSeq(s, 1, Len(s) - 1))
    ELSE s

\* str.strip(): the whitespace of the modelled lines is the space
RECURSIVE LStrip(_)
LStrip(s) == IF s # <<>> /\ s[1] = " " THEN LStrip(Tail(s)) ELSE s

RECURSIVE RStrip(_)
RStrip(s) ==
    IF s # <<>> /\ s[Len(s)] = " " THEN RStrip(SubSeq(s, 1, Len(s) - 1))
    ELSE s

Strip(s) == RStrip(LStrip(s))

\* str.split("/")
RECURSIVE SplitSlash(_)
SplitSlash(s) ==
    IF \A i \in 1..Len(s) : s[i] # "/" THEN <<s>>
    ELSE LET k == CHOOSE i \in 1..Len(s) :
                      s[i] = "/" /\ \A j \in 1..(i - 1) : s[j] # "/"
         IN  <<SubSeq(s, 1, k - 1)>> \o SplitSlash(SubSeq(s, k + 1, Len(s)))

\* ------------------------------------------------------------------- paths
root_path == <<>>

\* root_path.name, the first line of the output
RootName == <<"r", "o", "o", "t">>

Name(p) == p[Len(p)]

Parent(p) == SubSeq(p, 1, Len(p) - 1)

\* p.relative_to(root_path).as_posix() of a path below the root
RECURSIVE AsPosix(_)
AsPosix(p) ==
    IF Len(p) = 1 THEN p[1]
    ELSE AsPosix(Parent(p)) \o <<"/">> \o Name(p)

is_dir(p) == fs[p] = "dir"

\* the entries path.iterdir() yields, as a set: the order is the filesystem's
IterDir(p) == {c \in DOMAIN fs : c # root_path /\ Parent(c) = p}

\* the orders in which iterdir() may yield the entries of a set
Listings(S) ==
    {o \in [1..Cardinality(S) -> S] : \A i, j \in 1..Cardinality(S) : o[i] = o[j] => i = j}

\* key=lambda x: (not x.is_dir(), x.name.lower()), compared as Python tuples
KeyLess(a, b) ==
    \/ is_dir(a) /\ ~is_dir(b)
    \/ is_dir(a) = is_dir(b) /\ StrLess(Lower(Name(a)), Lower(Name(b)))

\* sorted(): stable, so entries with equal keys keep the order of the listing
RECURSIVE Sorted(_)
Sorted(o) ==
    IF Len(o) <= 1 THEN o
    ELSE LET init == Sorted(SubSeq(o, 1, Len(o) - 1))
             x == o[Len(o)]
             k == Cardinality({i \in 1..Len(init) : ~KeyLess(x, init[i])})
         IN  SubSeq(init, 1, k) \o <<x>> \o SubSeq(init, k + 1, Len(init))

\* ------------------------------------------------------------------- rules
\* _read_gitignore_lines: no file gives no lines; each line is stripped, and
\* blank lines and comments are dropped
RECURSIVE ReadLines(_)
ReadLines(raw) ==
    IF raw = <<>> THEN <<>>
    ELSE LET line == Strip(Head(raw))
         IN  IF line = <<>> \/ StartsWith(line, <<"#">>)
             THEN ReadLines(Tail(raw))
             ELSE <<line>> \o ReadLines(Tail(raw))

_read_gitignore_lines == IF gitignore.exists THEN ReadLines(gitignore.raw) ELSE <<>>

\* the pattern of the implicit rule
GitDirPattern == <<".", "g", "i", "t", "/">>

\* with the implicit rule first instead of last
PatternsGitFirst ==
    (IF exclude_git THEN <<GitDirPattern>> ELSE <<>>)
        \o (IF apply_gitignore THEN _read_gitignore_lines ELSE <<>>)
        \o ignore_list

\* step 1 of build_structure_tree: gitignore lines, then the caller's
\* patterns, then the implicit rule
patterns ==
    (IF apply_gitignore THEN _read_gitignore_lines ELSE <<>>)
        \o ignore_list
        \o (IF exclude_git THEN <<GitDirPattern>> ELSE <<>>)

\* core = pat[1:] if pat.startswith("!") else pat
Core(pat) == IF StartsWith(pat, <<"!">>) THEN Tail(pat) ELSE pat

\* the rules compiled in the reverse of the declared order
RECURSIVE CompileReversed(_)
CompileReversed(pats) ==
    IF pats = <<>> THEN <<>>
    ELSE LET pat == Head(pats)
             is_neg == StartsWith(pat, <<"!">>)
             core == IF is_neg THEN Tail(pat) ELSE pat
         IN  IF core = <<>> THEN CompileReversed(Tail(pats))
             ELSE CompileReversed(Tail(pats))
                      \o <<[is_neg |-> is_neg, spec |-> core, pat |-> pat]>>

\* _compile_gitignore_rules: one rule per pattern, in order; an empty core is
\* skipped. The spec of a rule is the PathSpec of its core, kept as the core.
RECURSIVE _compile_gitignore_rules(_)
_compile_gitignore_rules(pats) ==
    IF pats = <<>> THEN <<>>
    ELSE LET pat == Head(pats)
             is_neg == StartsWith(pat, <<"!">>)
             core == IF is_neg THEN Tail(pat) ELSE pat
         IN  IF core = <<>> THEN _compile_gitignore_rules(Tail(pats))
             ELSE <<[is_neg |-> is_neg, spec |-> core, pat |-> pat]>>
                      \o _compile_gitignore_rules(Tail(pats))

\* One segment of a gitwildmatch pattern against one path component: "*"
\* stands for any run of characters other than "/", every other character of
\* the modelled patterns for itself.
RECURSIVE GlobSeg(_, _)
GlobSeg(g, s) ==
    IF g = <<>> THEN s = <<>>
    ELSE IF g[1] = "*"
         THEN \E k \in 0..Len(s) : GlobSeg(Tail(g), SubSeq(s, k + 1, Len(s)))
         ELSE s # <<>> /\ s[1] = g[1] /\ GlobSeg(Tail(g), Tail(s))

\* spec.match_file(rel) for PathSpec.from_lines("gitwildmatch", [core]), for a
\* core without a trailing "/", "**", "?", brackets or escapes. A core with a
\* leading or an inner "/" is anchored at the root, any other core matches
\* at every level; a match of a path also matches everything below it.
match_file(core, rel) ==
    LET segs == SplitSlash(core)
        rsegs == SplitSlash(rel)
    IN  IF Len(segs) = 1
        THEN \E i \in 1..Len(rsegs) : GlobSeg(segs[1], rsegs[i])
        ELSE LET psegs == IF segs[1] = <<>> THEN Tail(segs) ELSE segs
             IN  /\ Len(psegs) <= Len(rsegs)
                 /\ \A i \in 1..Len(psegs) : GlobSeg(psegs[i], rsegs[i])

\* a negated directory-only rule that also re-includes what is below the
\* directory
RuleStepNegDescends(rule, p, st) ==
    LET rel == AsPosix(p)
        core == Core(rule.pat)
    IN  IF EndsWith(core, <<"/">>)
        THEN LET dir_pat == RStripSlash(core)
             IN  IF ~rule.is_neg
                 THEN IF rel = dir_pat \/ StartsWith(rel, dir_pat \o <<"/">>)
                      THEN TRUE ELSE st
                 ELSE IF rel = dir_pat \/ StartsWith(rel, dir_pat \o <<"/">>)
                      THEN FALSE ELSE st
        ELSE IF match_file(rule.spec, rel) THEN ~rule.is_neg ELSE st

\* a directory-only rule that tests the prefix without the separator
RuleStepBarePrefix(rule, p, st) ==
    LET rel == AsPosix(p)
        core == Core(rule.pat)
    IN  IF EndsWith(core, <<"/">>)
        THEN LET dir_pat == RStripSlash(core)
             IN  IF ~rule.is_neg
                 THEN IF StartsWith(rel, dir_pat) THEN TRUE ELSE st
                 ELSE IF is_dir(p) /\ rel = dir_pat THEN FALSE ELSE st
        ELSE IF match_file(rule.spec, rel) THEN ~rule.is_neg ELSE st

\* the body of the loop of is_ignored: the running verdict state_ignore after
\* one rule
RuleStep(rule, p, st) ==
    LET rel == AsPosix(p)
        core == Core(rule.pat)
    IN  IF EndsWith(core, <<"/">>)
        THEN LET dir_pat == RStripSlash(core)
             IN  IF ~rule.is_neg
                 THEN IF rel = dir_pat \/ StartsWith(rel, dir_pat \o <<"/">>)
                      THEN TRUE ELSE st
                 ELSE IF is_dir(p) /\ rel = dir_pat THEN FALSE ELSE st
        ELSE IF match_file(rule.spec, rel) THEN ~rule.is_neg ELSE st

\* is_ignored(p): the verdict after the last rule
RECURSIVE Scan(_, _, _)
Scan(rs, p, st) ==
    IF rs = <<>> THEN st ELSE Scan(Tail(rs), p, RuleStep(Head(rs), p, st))

is_ignored(p) == Scan(rules, p, FALSE)

\* --------------------------------------------------------- enumeration
\* max_depth is not None and depth > max_depth: one level too deep
EnumStopOffByOne(depth) == max_depth # None /\ depth > max_depth

\* the enumerator's test: max_depth is not None and depth >= max_depth
EnumStop(depth) == max_depth # None /\ depth >= max_depth

\* a walk that does not enter an ignored directory
DescendUnlessIgnored(ch) == is_dir(ch) /\ ~is_ignored(ch)

\* the enumerator's test for pushing a child: ch.is_dir(), whatever the rules
\* say of it
Descend(ch) == is_dir(ch)

\* the (path, depth) entries pushed for the directories among kids, in order
RECURSIVE Pushed(_, _)
Pushed(kids, depth) ==
    IF kids = <<>> THEN <<>>
    ELSE (IF Descend(Head(kids)) THEN <<[path |-> Head(kids), depth |-> depth]>> ELSE <<>>)
             \o Pushed(Tail(kids), depth)

\* only the parent of p
AncestorsParentOnly(p) == {Parent(p)}

\* what the walk "while cur != root_path: cur = cur.parent" adds for p: every
\* strict ancestor, the root included
Ancestors(p) == {SubSeq(p, 1, k) : k \in 0..(Len(p) - 1)}

\* ----------------------------------------------------------- rendering
\* the renderer's test: max_depth is not None and depth >= max_depth
RecStop(depth) == max_depth # None /\ depth >= max_depth

\* a listing that is sorted and not filtered
ListChildrenUnfiltered(o) == Sorted(o)

\* list_children: the sorted listing o of a directory, kept to the members of
\* included
list_children(o) ==
    LET srt == Sorted(o)
        F[i \in 0..Len(srt)] ==
            IF i = 0 THEN <<>>
            ELSE IF srt[i] \in included THEN Append(F[i - 1], srt[i]) ELSE F[i - 1]
    IN  F[Len(srt)]

\* the two connectors and the two continuations, the box-drawing characters
\* written in ASCII: branch, corner; bar and padding, padding alone
ends == <<"|-- ", "+-- ">>

extents == <<"|    ", "     ">>

\* ------------------------------------------------------------------ inputs
n_build == <<"b", "u", "i", "l", "d">>
n_buildx == <<"b", "u", "i", "l", "d", "x">>
n_sub == <<"s", "u", "b">>
n_x == <<"x">>
n_m == <<"m">>
n_git == <<".", "g", "i", "t">>
n_config == <<"c", "o", "n", "f", "i", "g">>
n_gitignore == <<".", "g", "i", "t", "i", "g", "n", "o", "r", "e">>
n_foo == <<"f", "o", "o">>
n_Foo == <<"F", "o", "o">>
n_alog == <<"a", ".", "l", "o", "g">>
n_implog == <<"i", "m", "p", "o", "r", "t", "a", "n", "t", ".", "l", "o", "g">>

Neg(pat) == <<"!">> \o pat

DirPat(p) == AsPosix(p) \o <<"/">>

\* the snapshots drawn from a universe U, a function from paths to the kinds
\* an entry may have: the root, the entries of M and a prefix-closed set of
\* other entries, every entry with children a directory
Snapshots(U, M) ==
    UNION {
        {f \in [S \cup {root_path} -> {"dir", "file"}] :
            /\ f[root_path] = "dir"
            /\ \A p \in S : f[p] \in U[p] /\ f[Parent(p)] = "dir"} :
        S \in {T \in SUBSET (DOMAIN U) :
                  M \subseteq T /\ \A p \in T : Len(p) > 1 => Parent(p) \in T}}

\* the lists of at most n patterns of P, none twice
Lists(P, n) ==
    {l \in UNION {[1..k -> P] : k \in 0..n} :
        \A i, j \in 1..Len(l) : i < j => l[i] # l[j]}

Depths == {None} \cup 0..MaxDepthBound

NoGitignore == [exists |-> FALSE, raw |-> <<>>]

\* a tree with a directory build, an entry that extends its name and one that
\* holds it lower down
UniverseBuild ==
    (<<n_build>> :> {"dir", "file"}) @@ (<<n_build, n_x>> :> {"file"})
        @@ (<<n_build, n_m>> :> {"dir"}) @@ (<<n_build, n_m, n_x>> :> {"file"})
        @@ (<<n_sub>> :> {"dir"}) @@ (<<n_sub, n_build>> :> {"file"})
        @@ (<<n_buildx>> :> {"file"})

PoolBuild ==
    {DirPat(<<n_build>>), Neg(DirPat(<<n_build>>)), Neg(AsPosix(<<n_build, n_x>>)),
     Neg(AsPosix(<<n_build, n_m, n_x>>))}

InputsBuild ==
    [fs : Snapshots(UniverseBuild, {<<n_buildx>>}), gitignore : {NoGitignore},
     ignore_list : Lists(PoolBuild, MaxExtra), apply_gitignore : {TRUE},
     exclude_git : {FALSE}, max_depth : Depths]

\* a tree with the metadata directory, a sibling and a .gitignore file
UniverseGit ==
    (<<n_git>> :> {"dir", "file"}) @@ (<<n_git, n_config>> :> {"file"})
        @@ (<<n_x>> :> {"file"}) @@ (<<n_gitignore>> :> {"file"})

PoolGit ==
    {Neg(DirPat(<<n_git>>)), Neg(AsPosix(<<n_git, n_config>>)), n_x}

\* the lines of the .gitignore file: padded, a comment, blank, a bare "!"
GitignoreRaw ==
    <<<<" ">> \o Neg(DirPat(<<n_git>>)) \o <<" ">>, <<"#", " ", "c">>, <<>>, <<"!">>,
      Neg(AsPosix(<<n_git, n_config>>))>>

InputsGit ==
    {in \in [fs : Snapshots(UniverseGit, {<<n_x>>}),
             gitignore : {NoGitignore, [exists |-> TRUE, raw |-> GitignoreRaw]},
             ignore_list : Lists(PoolGit, MaxExtra), apply_gitignore : BOOLEAN,
             exclude_git : BOOLEAN, max_depth : Depths] :
        in.gitignore.exists <=> <<n_gitignore>> \in DOMAIN in.fs}

\* a tree with log files at two levels and two names equal after lowercasing
UniverseGlob ==
    (<<n_foo>> :> {"file"}) @@ (<<n_Foo>> :> {"file"})
        @@ (<<n_implog>> :> {"file"})
        @@ (<<n_sub>> :> {"dir"}) @@ (<<n_sub, n_alog>> :> {"file"})
        @@ (<<n_sub, n_implog>> :> {"file"})

PoolGlob == {n_foo, Neg(n_foo), <<"*">> \o <<".", "l", "o", "g">>, Neg(n_implog)}

InputsGlob ==
    [fs : Snapshots(UniverseGlob, {}), gitignore : {NoGitignore},
     ignore_list : Lists(PoolGlob, MaxExtra), apply_gitignore : {TRUE},
     exclude_git : {FALSE}, max_depth : Depths]

\* ------------------------------------------------------------------ actions
InitFrom(Inputs) ==
    /\ \E in \in Inputs :
           /\ fs = in.fs
           /\ gitignore = in.gitignore
           /\ ignore_list = in.ignore_list
           /\ apply_gitignore = in.apply_gitignore
           /\ exclude_git = in.exclude_git
           /\ max_depth = in.max_depth
    /\ pc = "start"
    /\ rules = <<>>
    /\ all_paths = <<>>
    /\ stack = <<>>
    /\ pi = 0
    /\ ri = 0
    /\ state_ignore = FALSE
    /\ included = {}
    /\ lines = <<>>
    /\ emitted = <<>>
    /\ rstack = <<>>
    /\ outputs = <<>>

Init == InitFrom(InputsBuild \cup InputsGit \cup InputsGlob)

\* steps 1 and 2, and the start of step 3
BuildRules ==
    /\ pc = "start"
    /\ rules' = _compile_gitignore_rules(patterns)
    /\ all_paths' = <<root_path>>
    /\ stack' = <<[path |-> root_path, depth |-> 0]>>
    /\ pc' = "enum"
    /\ UNCHANGED <<inputs, pi, ri, state_ignore, included, lines, emitted, rstack, outputs>>

\* one turn of "while stack": pop, and unless the depth bound is reached,
\* list the children, sorted, and push the directories among them
EnumStep ==
    /\ pc = "enum"
    /\ stack # <<>>
    /\ LET top == stack[Len(stack)]
           rest == SubSeq(stack, 1, Len(stack) - 1)
       IN  IF EnumStop(top.depth)
           THEN stack' = rest /\ all_paths' = all_paths
           ELSE \E o \in Listings(IterDir(top.path)) :
                    LET kids == Sorted(o)
                    IN  /\ all_paths' = all_paths \o kids
                        /\ stack' = rest \o Pushed(kids, top.depth + 1)
    /\ UNCHANGED <<inputs, pc, rules, pi, ri, state_ignore, included, lines, emitted,
                   rstack, outputs>>

EnumDone ==
    /\ pc = "enum"
    /\ stack = <<>>
    /\ pc' = "resolve"
    /\ pi' = 1
    /\ included' = {}
    /\ UNCHANGED <<inputs, rules, all_paths, stack, ri, state_ignore, lines, emitted,
                   rstack, outputs>>

\* "for p in all_paths": the root is added, is_ignored is called on any other
ResolveNext ==
    /\ pc = "resolve"
    /\ pi <= Len(all_paths)
    /\ IF all_paths[pi] = root_path
       THEN /\ included' = included \cup {root_path}
            /\ pi' = pi + 1
            /\ UNCHANGED <<pc, ri, state_ignore>>
       ELSE /\ pc' = "is_ignored"
            /\ ri' = 1
            /\ state_ignore' = FALSE
            /\ UNCHANGED <<pi, included>>
    /\ UNCHANGED <<inputs, rules, all_paths, stack, lines, emitted, rstack, outputs>>

\* one turn of "for is_neg, spec, _pat in rules"
ScanRule ==
    /\ pc = "is_ignored"
    /\ ri <= Len(rules)
    /\ state_ignore' = RuleStep(rules[ri], all_paths[pi], state_ignore)
    /\ ri' = ri + 1
    /\ UNCHANGED <<inputs, pc, rules, all_paths, stack, pi, included, lines, emitted,
                   rstack, outputs>>

\* "return state_ignore", and the caller's "if not is_ignored(p)"
ScanReturn ==
    /\ pc = "is_ignored"
    /\ ri > Len(rules)
    /\ included' = IF state_ignore THEN included ELSE included \cup {all_paths[pi]}
    /\ pi' = pi + 1
    /\ pc' = "resolve"
    /\ ri' = 0
    /\ state_ignore' = FALSE
    /\ UNCHANGED <<inputs, rules, all_paths, stack, lines, emitted, rstack, outputs>>

\* step 5: the loop runs over list(included), a copy, and each turn adds the
\* ancestors of its p, so the order of the turns does not change the result
Reconcile ==
    /\ pc = "resolve"
    /\ pi > Len(all_paths)
    /\ included' = included \cup UNION {Ancestors(p) : p \in included}
    /\ pc' = "render"
    /\ UNCHANGED <<inputs, rules, all_paths, stack, pi, ri, state_ignore, lines, emitted,
                   rstack, outputs>>

\* lines = [root_path.name] and the call rec(root_path)
RenderStart ==
    /\ pc = "render"
    /\ lines = <<>>
    /\ lines' = <<RootName>>
    /\ IF RecStop(0)
       THEN pc' = "done" /\ rstack' = <<>>
       ELSE /\ \E o \in Listings(IterDir(root_path)) :
                    rstack' = <<[prefix |-> <<>>, depth |-> 0, kids |-> list_children(o), i |-> 1]>>
            /\ pc' = pc
    /\ UNCHANGED <<inputs, rules, all_paths, stack, pi, ri, state_ignore, included,
                   emitted, outputs>>

\* one turn of "for i, ch in enumerate(kids)": the line of ch, and the call of
\* rec on a directory, which returns at once at the depth bound
RecStep ==
    /\ pc = "render"
    /\ rstack # <<>>
    /\ LET top == rstack[Len(rstack)]
           last == IF top.i = Len(top.kids) THEN 2 ELSE 1
       IN  /\ top.i <= Len(top.kids)
           /\ LET ch == top.kids[top.i]
                  next == [rstack EXCEPT ![Len(rstack)].i = top.i + 1]
              IN  /\ lines' = Append(lines, top.prefix \o <<ends[last]>> \o Name(ch))
                  /\ emitted' = Append(emitted, ch)
                  /\ IF is_dir(ch) /\ ~RecStop(top.depth + 1)
                     THEN \E o \in Listings(IterDir(ch)) :
                              rstack' = Append(next,
                                  [prefix |-> top.prefix \o <<extents[last]>>,
                                   depth |-> top.depth + 1,
                                   kids |-> list_children(o), i |-> 1])
                     ELSE rstack' = next
    /\ UNCHANGED <<inputs, pc, rules, all_paths, stack, pi, ri, state_ignore, included,
                   outputs>>

\* the end of the loop of rec: back to the caller, and out of rec(root_path)
RecReturn ==
    /\ pc = "render"
    /\ rstack # <<>>
    /\ rstack[Len(rstack)].i > Len(rstack[Len(rstack)].kids)
    /\ rstack' = SubSeq(rstack, 1, Len(rstack) - 1)
    /\ pc' = IF Len(rstack) = 1 THEN "done" ELSE pc
    /\ UNCHANGED <<inputs, rules, all_paths, stack, pi, ri, state_ignore, included,
                   lines, emitted, outputs>>

Next ==
    \/ BuildRules
    \/ EnumStep
    \/ EnumDone
    \/ ResolveNext
    \/ ScanRule
    \/ ScanReturn
    \/ Reconcile
    \/ RenderStart
    \/ RecStep
    \/ RecReturn

Spec == Init /\ [][Next]_vars

\* a second invocation on the same snapshot with the same arguments; the
\* output of the first is kept for comparison
Reinvoke ==
    /\ pc = "done"
    /\ outputs = <<>>
    /\ outputs' = <<lines>>
    /\ pc' = "start"
    /\ rules' = <<>>
    /\ all_paths' = <<>>
    /\ included' = {}
    /\ lines' = <<>>
    /\ emitted' = <<>>
    /\ pi' = 0
    /\ UNCHANGED <<inputs, stack, ri, state_ignore, rstack>>

InitTwice == InitFrom({in \in InputsGlob : Len(in.ignore_list) <= 1})

NextTwice == Next \/ Reinvoke

SpecTwice == InitTwice /\ [][NextTwice]_vars

\* ------------------------------------------------------------------ claims
Cands == {all_paths[i] : i \in 1..Len(all_paths)}

Emitted == {emitted[i] : i \in 1..Len(emitted)}

\* a is a strict ancestor of p
IsAncestor(a, p) == Len(a) < Len(p) /\ SubSeq(p, 1, Len(a)) = a

\* the entries of the snapshot within the depth bound
WithinBound == {p \in DOMAIN fs : max_depth = None \/ Len(p) <= max_depth}

Rendering == pc \in {"render", "done"}

IsNegated(pat) == StartsWith(pat, <<"!">>)

IsDirOnly(pat) == EndsWith(Core(pat), <<"/">>)

\* the declared pattern pat matches the candidate p
Matches(pat, p) ==
    /\ Core(pat) # <<>>
    /\ IF IsDirOnly(pat)
       THEN IF IsNegated(pat)
            THEN is_dir(p) /\ DirPat(p) = Core(pat)
            ELSE \E k \in 1..Len(p) : DirPat(SubSeq(p, 1, k)) = Core(pat)
       ELSE match_file(Core(pat), AsPosix(p))

\* the verdict the last matching pattern of the declared order gives p
LastMatchVerdict(p) ==
    LET hits == {i \in 1..Len(patterns) : Matches(patterns[i], p)}
    IN  IF hits = {} THEN FALSE
        ELSE LET last == CHOOSE i \in hits : \A j \in hits : j <= i
             IN  ~IsNegated(patterns[last])

p_log == <<"*", ".", "l", "o", "g">>

\* C1: once the resolver and the reconciler have run, the root is in the
\* inclusion set and every strict ancestor of every member is a member.
PrefixClosed ==
    Rendering =>
        /\ root_path \in included
        /\ \A p \in included : \A k \in 0..(Len(p) - 1) : SubSeq(p, 1, k) \in included

\* a member two levels below an excluded directory, both ancestors restored
PrefixClosedWitness ==
    /\ pc = "done"
    /\ \E p \in included :
           /\ Len(p) = 3
           /\ is_ignored(Parent(p))
           /\ is_ignored(Parent(Parent(p)))

\* the verdict is_ignored returns is the one of the last matching rule
LastMatchGeneral ==
    pc = "is_ignored" /\ ri > Len(rules) => state_ignore = LastMatchVerdict(all_paths[pi])

\* foo then !foo includes foo, !foo then foo excludes it
LastMatchOrder ==
    Rendering /\ <<n_foo>> \in Cands =>
        /\ patterns = <<n_foo, Neg(n_foo)>> => <<n_foo>> \in included
        /\ patterns = <<Neg(n_foo), n_foo>> => <<n_foo>> \notin included

\* C2 as amended: last match wins, the order of foo and !foo decides foo, and
\* under *.log then !important.log the root-level important.log is included
\* and every regular file named *.log whose path has no component
\* important.log is excluded.
LastMatchWins ==
    /\ LastMatchGeneral
    /\ LastMatchOrder
    /\ Rendering /\ patterns = <<p_log, Neg(n_implog)>> =>
           /\ <<n_implog>> \in Cands => <<n_implog>> \in included
           /\ \A p \in Cands \ {root_path} :
                  /\ ~is_dir(p)
                  /\ EndsWith(Name(p), Tail(p_log))
                  /\ \A k \in 1..Len(p) : p[k] # n_implog
                  => p \notin included

\* the override at work: important.log kept, another log file dropped
LastMatchWinsWitness ==
    /\ pc = "done"
    /\ patterns = <<p_log, Neg(n_implog)>>
    /\ <<n_implog>> \in included
    /\ <<n_sub, n_alog>> \in Cands
    /\ <<n_sub, n_alog>> \notin included

\* C2 as stated: as above, but beside a root-level important.log every other
\* *.log file is excluded.
LastMatchWinsAsStated ==
    /\ LastMatchGeneral
    /\ LastMatchOrder
    /\ Rendering /\ patterns = <<p_log, Neg(n_implog)>> /\ <<n_implog>> \in Cands =>
           /\ <<n_implog>> \in included
           /\ \A p \in Cands \ {root_path, <<n_implog>>} :
                  ~is_dir(p) /\ EndsWith(Name(p), Tail(p_log)) => p \notin included

GitExcluded ==
    exclude_git =>
        /\ pc # "start" => rules[Len(rules)].pat = GitDirPattern
        /\ Rendering =>
               /\ \A p \in (included \cup Emitted) \ {root_path} : p[1] # n_git
               /\ patterns = <<GitDirPattern>> =>
                      \A p \in Cands : Len(p) = 1 /\ p # <<n_git>> => p \in included

\* .git/config is a candidate and negations of .git/ and .git/config come
\* from the .gitignore file and from the caller
GitExcludedWitness ==
    /\ pc = "done"
    /\ exclude_git
    /\ apply_gitignore
    /\ gitignore.exists
    /\ <<n_git, n_config>> \in Cands
    /\ \E i \in 1..Len(ignore_list) : ignore_list[i] = Neg(AsPosix(<<n_git, n_config>>))
    /\ <<n_x>> \in included

\* C5: no candidate and no emitted path lies more than max_depth levels below
\* the root; with max_depth = 0 the output is the root's name alone; a member
\* directory at depth max_depth is emitted and none of its children is.
DepthBound ==
    max_depth # None =>
        /\ \A p \in Cands \cup Emitted : Len(p) <= max_depth
        /\ lines # <<>> => Len(lines) = Len(emitted) + 1
        /\ pc = "done" =>
               /\ max_depth = 0 => lines = <<RootName>>
               /\ \A p \in included \ {root_path} :
                      is_dir(p) /\ Len(p) = max_depth =>
                          p \in Emitted /\ \A c \in IterDir(p) : c \notin Emitted

\* a directory at depth 1 = max_depth that has children on disk
DepthBoundWitness ==
    /\ pc = "done"
    /\ max_depth = 1
    /\ rules = <<>>
    /\ \E p \in Emitted : Len(p) = 1 /\ is_dir(p) /\ IterDir(p) # {}

\* C6: a non-negated directory-only rule D/ leaves the running verdict of a
\* regular file whose root-relative path is D as it was.
DirOnlySparesFile ==
    [][(/\ pc = "is_ignored"
        /\ ri <= Len(rules)
        /\ ~rules[ri].is_neg
        /\ IsDirOnly(rules[ri].pat)
        /\ ~is_dir(all_paths[pi])
        /\ DirPat(all_paths[pi]) = Core(rules[ri].pat))
       => state_ignore' = state_ignore]_vars

\* C7: the second invocation on the same snapshot with the same arguments
\* returns the output of the first.
Deterministic ==
    pc = "done" /\ outputs # <<>> => lines = outputs[1]

\* C8: every entry within the depth bound whose own verdict is included is a
\* member and is emitted together with all its ancestors, whatever their own
\* verdicts; an excluded entry with no included entry below it within the
\* bound is neither a member nor emitted.
KeptRestoresAncestors ==
    pc = "done" =>
        \A f \in WithinBound \ {root_path} :
            /\ ~is_ignored(f) =>
                   /\ f \in included
                   /\ \A k \in 1..Len(f) : SubSeq(f, 1, k) \in Emitted
            /\ (is_ignored(f) /\ \A q \in WithinBound : IsAncestor(f, q) => is_ignored(q))
                   => f \notin included /\ f \notin Emitted

\* build/ then !build/m/x: build/m/x is emitted under the excluded build and
\* build/m, and build/x stays out
KeptRestoresAncestorsWitness ==
    /\ pc = "done"
    /\ patterns = <<DirPat(<<n_build>>), Neg(AsPosix(<<n_build, n_m, n_x>>))>>
    /\ is_ignored(<<n_build>>)
    /\ is_ignored(<<n_build, n_m>>)
    /\ {<<n_build>>, <<n_build, n_m>>, <<n_build, n_m, n_x>>} \subseteq Emitted
    /\ <<n_build, n_x>> \in Cands
    /\ <<n_build, n_x>> \notin Emitted

\* C9: a negated directory-only rule !D/ sets the running verdict of the
\* directory whose root-relative path is D to included and leaves the running
\* verdict of every other candidate as it was; after D/ then !D/ nothing
\* below D is a member.
NegatedDirOnlySelf ==
    [][/\ (/\ pc = "is_ignored"
           /\ ri <= Len(rules)
           /\ rules[ri].is_neg
           /\ IsDirOnly(rules[ri].pat))
          => state_ignore' =
                 IF is_dir(all_paths[pi]) /\ DirPat(all_paths[pi]) = Core(rules[ri].pat)
                 THEN FALSE ELSE state_ignore
       /\ (pc' = "done" /\ patterns = <<DirPat(<<n_build>>), Neg(DirPat(<<n_build>>))>>)
          => \A p \in Cands : Len(p) > 1 /\ p[1] = n_build => p \notin included']_vars

\* build/x just after build/ and !build/ were applied to it: still excluded
NegatedDirOnlySelfWitness ==
    /\ pc = "is_ignored"
    /\ ri = 3
    /\ rules[1].pat = DirPat(<<n_build>>)
    /\ rules[2].pat = Neg(DirPat(<<n_build>>))
    /\ all_paths[pi] = <<n_build, n_x>>
    /\ state_ignore

\* C10: the first line is the root's name; the other lines are, one to one
\* and each once, the non-root members of the inclusion set, each line ending
\* in its member's name; a member comes after its parent, the members below a
\* directory follow it without a gap, and siblings come in key order.
OutputMatchesInclusion ==
    pc = "done" =>
        /\ lines[1] = RootName
        /\ Len(lines) = Len(emitted) + 1
        /\ Emitted = included \ {root_path}
        /\ \A i, j \in 1..Len(emitted) :
               /\ emitted[i] = emitted[j] => i = j
               /\ i < j /\ Parent(emitted[i]) = Parent(emitted[j])
                      => ~KeyLess(emitted[j], emitted[i])
               /\ \A k \in 1..Len(emitted) :
                      i < j /\ j < k /\ IsAncestor(emitted[i], emitted[k])
                          => IsAncestor(emitted[i], emitted[j])
        /\ \A j \in 1..Len(emitted) :
               /\ EndsWith(lines[j + 1], Name(emitted[j]))
               /\ Len(emitted[j]) > 1 =>
                      \E i \in 1..(j - 1) : emitted[i] = Parent(emitted[j])

\* an output of several lines, three levels deep, with a candidate left out
OutputMatchesInclusionWitness ==
    /\ pc = "done"
    /\ Len(emitted) >= 4
    /\ \E i \in 1..Len(emitted) : Len(emitted[i]) = 3
    /\ \E p \in Cands : p \notin included

====
